---- MODULE Spec2Model ----
(***************************************************************************)
(* A model of the unicreds credential store: PutSecret, GetSecret,        *)
(* ResolveVersion, ListSecrets, GetAllSecrets and DeleteSecret over a      *)
(* DynamoDB table keyed by (name, version), with envelope encryption by a  *)
(* key-management service.                                                  *)
(*                                                                         *)
(* Strings that the code orders or parses (versions) are sequences of      *)
(* decimal digits; byte strings (secrets, ciphertexts) are 2-bit values;   *)
(* a base64 text is the bytes it decodes to plus the shape of the text.    *)
(***************************************************************************)
EXTENDS Integers, Sequences, FiniteSets, TLC

\* ------------------------------------------------------------------ bounds
\* Number of items the table holds at most.
MaxItems == 3
\* The highest version a put command resolves.
MaxVersion == 12
\* Number of times the stored text of a record is altered behind the program.
MaxTamper == 1
\* Seconds the clock of a Setup call is followed past the timeout.
MaxLate == 2
\* tableCreateTimeout, in seconds.
tableCreateTimeout == 30

\* ------------------------------------------------------------------ inputs
Names == {"a", "b"}
Secrets == {1, 2}
\* cmdPutVersion: 0 means "no version given".
ExplicitVersions == {0, 1, 9}
\* The arguments of the put command: every secret and every version for the
\* first name; the second name is there to be listed beside the first and
\* to be left alone by its deletes.
PutArgs ==
    {[name |-> "a", secret |-> s, explicit |-> v] :
        s \in Secrets, v \in ExplicitVersions}
    \cup {[name |-> "b", secret |-> 1, explicit |-> 0]}
Clients == {1, 2}
Bytes == 0 .. 3

\* Outcomes of a call to the key-management service and to the store.
KmsOutcomes == {"ok", "AccessDeniedException", "KMSInternalException"}
StoreOutcomes == {"ok", "StoreError"}

\* ----------------------------------------------------------------- strings
\* strconv.Itoa for non-negative integers: the decimal digits, most
\* significant first.
RECURSIVE Itoa(_)
Itoa(n) == IF n < 10 THEN <<n>> ELSE Append(Itoa(n \div 10), n % 10)

RECURSIVE DigitsValue(_)
DigitsValue(s) ==
    IF Len(s) = 0 THEN 0
    ELSE 10 * DigitsValue(SubSeq(s, 1, Len(s) - 1)) + s[Len(s)]

\* strconv.Atoi: the empty string is an error, and the value is then 0.
Atoi(s) ==
    IF Len(s) = 0 THEN [val |-> 0, err |-> "ErrSyntax"]
    ELSE [val |-> DigitsValue(s), err |-> "none"]

\* Go's (and DynamoDB's) order on strings: byte by byte, a proper prefix
\* first.
RECURSIVE StrLess(_, _)
StrLess(s, t) ==
    IF Len(t) = 0 THEN FALSE
    ELSE IF Len(s) = 0 THEN TRUE
    ELSE IF Head(s) # Head(t) THEN Head(s) < Head(t)
    ELSE StrLess(Tail(s), Tail(t))

EmptyString == <<>>

\* ------------------------------------------------------------------ base64
\* base64.StdEncoding.EncodeToString: the canonical text of the bytes.
B64Encode(bytes) == [kind |-> "canon", bytes |-> bytes]

\* base64.StdEncoding.DecodeString: a text outside the alphabet is an error;
\* a text with line breaks in it decodes to the same bytes as the canonical
\* one.
B64Decode(text) ==
    IF text.kind = "bad" THEN [bytes |-> 0, err |-> "CorruptInputError"]
    ELSE [bytes |-> text.bytes, err |-> "none"]

NoText == [kind |-> "canon", bytes |-> 0]

\* ------------------------------------------------- key-management service
\* The 64 plaintext bytes of data key k, as its two 32-byte halves.
Plaintext(k) == <<2 * k - 1, 2 * k>>
CiphertextBlob(k) == <<"wrapped", k>>

\* GenerateDataKey(kmsKey, 64): k is the key the service issues.
GenerateDataKey(k, kms) ==
    IF kms # "ok" THEN [err |-> kms, Plaintext |-> <<>>, CiphertextBlob |-> <<>>]
    ELSE [err |-> "none", Plaintext |-> Plaintext(k),
          CiphertextBlob |-> CiphertextBlob(k)]

\* DecryptDataKey(wrappedKey): the service unwraps the blob or refuses.
DecryptDataKey(wrappedKey, kms) ==
    IF kms # "ok" THEN [err |-> kms, Plaintext |-> <<>>]
    ELSE [err |-> "none", Plaintext |-> Plaintext(wrappedKey[2])]

\* ---------------------------------------------------------------- ciphers
Xor(a, b) == ((a + b) % 2) + 2 * (((a \div 2) + (b \div 2)) % 2)

\* The key stream a 32-byte cipher key expands to.
KeyStream(dataKey) == dataKey % 4

\* Encrypt and Decrypt are the same stream-cipher transformation.
Encrypt(dataKey, data) == Xor(data, KeyStream(dataKey))
Decrypt(dataKey, data) == Xor(data, KeyStream(dataKey))

\* ComputeHmac256(message, key): the tag, as hex text.
ComputeHmac256(message, hmacKey) == <<"hmac", message, hmacKey>>

\* ------------------------------------------------------------ credentials
NoCredential ==
    [Name |-> "", Version |-> EmptyString, Key |-> NoText, Contents |-> NoText,
     Hmac |-> <<>>, CreatedAt |-> 0]

\* The attributes a projection keeps; the others decode to their zero value.
Project(item, attrs) ==
    [Name |-> IF "name" \in attrs THEN item.Name ELSE "",
     Version |-> IF "version" \in attrs THEN item.Version ELSE EmptyString,
     Key |-> IF "key" \in attrs THEN item.Key ELSE NoText,
     Contents |-> IF "contents" \in attrs THEN item.Contents ELSE NoText,
     Hmac |-> IF "hmac" \in attrs THEN item.Hmac ELSE <<>>,
     CreatedAt |-> IF "created_at" \in attrs THEN item.CreatedAt ELSE 0]

\* ByVersion.Less on the version strings themselves.
ByVersionLess_lexical(a, b) == StrLess(a.Version, b.Version)

\* ByVersion.Less
ByVersionLess(a, b) == Atoi(a.Version).val < Atoi(b.Version).val

\* Go's order on the names of the model, which are one letter long: the
\* order of their bytes.
NameByte == [n \in Names \cup {""} |-> IF n = "a" THEN 97 ELSE IF n = "b" THEN 98 ELSE 0]

\* ByName.Less with the names the other way round.
ByNameLess_descending(a, b) == NameByte[b.Name] < NameByte[a.Name]

\* ByName.Less
ByNameLess(a, b) == NameByte[a.Name] < NameByte[b.Name]

\* ------------------------------------------------------------------ store
RECURSIVE Perms(_)
Perms(S) ==
    IF S = {} THEN {<<>>}
    ELSE UNION {{<<x>> \o p : p \in Perms(S \ {x})} : x \in S}

Range(s) == {s[i] : i \in 1 .. Len(s)}

Take(s, n) == IF Len(s) <= n THEN s ELSE SubSeq(s, 1, n)

\* The items of one partition in the store's order of the sort key, which is
\* a string attribute: descending (ScanIndexForward false).
RECURSIVE DescendingByVersion(_)
DescendingByVersion(S) ==
    IF S = {} THEN <<>>
    ELSE LET m == CHOOSE x \in S :
                      \A y \in S \ {x} : StrLess(y.Version, x.Version)
         IN <<m>> \o DescendingByVersion(S \ {m})

\* dynamoSvc.Query with the key condition on name and, when version is not
\* empty, on version; limit 0 stands for no Limit.
Query(tbl, name, version, limit) ==
    LET match == {r \in tbl : /\ r.Name = name
                              /\ (version # EmptyString => r.Version = version)}
        all == DescendingByVersion(match)
    IN IF limit = 0 THEN all ELSE Take(all, limit)

\* dynamoSvc.Scan: every item, in an order the store chooses.
Scan(tbl) == Perms(tbl)

HasKey(tbl, name, version) ==
    \E r \in tbl : r.Name = name /\ r.Version = version

\* PutItem without the condition: the new item replaces the one that has its
\* primary key.
PutItem_overwrite(tbl, item, store) ==
    IF store # "ok" THEN [err |-> store, table |-> tbl]
    ELSE [err |-> "none",
          table |-> {r \in tbl : ~(r.Name = item.Name /\ r.Version = item.Version)}
                        \cup {item}]

\* dynamoSvc.PutItem under ConditionExpression attribute_not_exists(#N): the
\* condition is evaluated on the item that has the new item's primary key.
PutItem(tbl, item, store) ==
    IF store # "ok" THEN [err |-> store, table |-> tbl]
    ELSE IF HasKey(tbl, item.Name, item.Version)
    THEN [err |-> "ConditionalCheckFailedException", table |-> tbl]
    ELSE [err |-> "none", table |-> tbl \cup {item}]

\* DeleteItem that removes the item and then reports the error of the store.
DeleteItem_removesonerror(tbl, name, version, store) ==
    [err |-> IF store # "ok" THEN store ELSE "none",
     table |-> {r \in tbl : ~(r.Name = name /\ r.Version = version)}]

\* dynamoSvc.DeleteItem by primary key; deleting an absent item succeeds.
DeleteItem(tbl, name, version, store) ==
    IF store # "ok" THEN [err |-> store, table |-> tbl]
    ELSE [err |-> "none",
          table |-> {r \in tbl : ~(r.Name = name /\ r.Version = version)}]

\* ---------------------------------------------------------------- program
\* sort.Sort under a Less: some arrangement of the elements in which no
\* element is Less than one before it (the sort is not stable).
Sorted(p, less) ==
    \A i \in 1 .. Len(p) : \A j \in i + 1 .. Len(p) : ~less[p[j], p[i]]

\* sort.Sort(ByVersion(creds))
SortByVersion(creds) ==
    LET S == Range(creds)
    IN {p \in Perms(S) : Sorted(p, [a \in S, b \in S |-> ByVersionLess(a, b)])}

\* sort.Sort(ByName(creds))
SortByName(creds) ==
    LET S == Range(creds)
    IN {p \in Perms(S) : Sorted(p, [a \in S, b \in S |-> ByNameLess(a, b)])}

NilDecrypted == [Credential |-> NoCredential, Secret |-> 0, nil |-> TRUE]

\* decryptCredential with the cipher key taken from the wrong half of the
\* data key.
decryptCredential_wronghalf(cred, kms) ==
    LET wrappedKey == B64Decode(cred.Key)
        dk == DecryptDataKey(wrappedKey.bytes, kms)
        dataKey == dk.Plaintext[2]
        hmacKey == dk.Plaintext[2]
        contents == B64Decode(cred.Contents)
        hexhmac == ComputeHmac256(contents.bytes, hmacKey)
        failed(e) == [err |-> e, dcred |-> NilDecrypted, decrypted |-> FALSE,
                      kmsCalls |-> IF wrappedKey.err # "none" THEN 0 ELSE 1]
    IN IF wrappedKey.err # "none" THEN failed(wrappedKey.err)
       ELSE IF dk.err # "none" THEN failed(dk.err)
       ELSE IF contents.err # "none" THEN failed(contents.err)
       ELSE IF hexhmac # cred.Hmac THEN failed("ErrHmacValidationFailed")
       ELSE [err |-> "none",
             dcred |-> [Credential |-> cred,
                        Secret |-> Decrypt(dataKey, contents.bytes),
                        nil |-> FALSE],
             decrypted |-> TRUE, kmsCalls |-> 1]

\* decryptCredential without the comparison of the tags.
decryptCredential_nocheck(cred, kms) ==
    LET wrappedKey == B64Decode(cred.Key)
        dk == DecryptDataKey(wrappedKey.bytes, kms)
        dataKey == dk.Plaintext[1]
        contents == B64Decode(cred.Contents)
        failed(e) == [err |-> e, dcred |-> NilDecrypted, decrypted |-> FALSE,
                      kmsCalls |-> IF wrappedKey.err # "none" THEN 0 ELSE 1]
    IN IF wrappedKey.err # "none" THEN failed(wrappedKey.err)
       ELSE IF dk.err # "none" THEN failed(dk.err)
       ELSE IF contents.err # "none" THEN failed(contents.err)
       ELSE [err |-> "none",
             dcred |-> [Credential |-> cred,
                        Secret |-> Decrypt(dataKey, contents.bytes),
                        nil |-> FALSE],
             decrypted |-> TRUE, kmsCalls |-> 1]

\* decryptCredential. decrypted tells whether Decrypt was called, kmsCalls
\* how often the key-management service was.
decryptCredential(cred, kms) ==
    LET wrappedKey == B64Decode(cred.Key)
        dk == DecryptDataKey(wrappedKey.bytes, kms)
        dataKey == dk.Plaintext[1]
        hmacKey == dk.Plaintext[2]
        contents == B64Decode(cred.Contents)
        hexhmac == ComputeHmac256(contents.bytes, hmacKey)
        failed(e) == [err |-> e, dcred |-> NilDecrypted, decrypted |-> FALSE,
                      kmsCalls |-> IF wrappedKey.err # "none" THEN 0 ELSE 1]
    IN IF wrappedKey.err # "none" THEN failed(wrappedKey.err)
       ELSE IF dk.err # "none" THEN failed(dk.err)
       ELSE IF contents.err # "none" THEN failed(contents.err)
       ELSE IF hexhmac # cred.Hmac THEN failed("ErrHmacValidationFailed")
       ELSE [err |-> "none",
             dcred |-> [Credential |-> cred,
                        Secret |-> Decrypt(dataKey, contents.bytes),
                        nil |-> FALSE],
             decrypted |-> TRUE, kmsCalls |-> 1]

\* GetSecret that asks the store for the name alone.
GetSecret_anyversion(tbl, name, version, store, kms) ==
    LET items == Query(tbl, name, EmptyString, 1)
    IN IF store # "ok"
       THEN [err |-> store, dcred |-> NilDecrypted, decrypted |-> FALSE,
             item |-> NoCredential, kmsCalls |-> 0]
       ELSE IF Len(items) = 0
       THEN [err |-> "ErrSecretNotFound", dcred |-> NilDecrypted,
             decrypted |-> FALSE, item |-> NoCredential, kmsCalls |-> 0]
       ELSE [item |-> items[1]] @@ decryptCredential(items[1], kms)

\* GetSecret(name, version): store is the outcome of the query, kms that of
\* the key unwrap.
GetSecret(tbl, name, version, store, kms) ==
    LET items == Query(tbl, name, version, 1)
    IN IF store # "ok"
       THEN [err |-> store, dcred |-> NilDecrypted, decrypted |-> FALSE,
             item |-> NoCredential, kmsCalls |-> 0]
       ELSE IF Len(items) = 0
       THEN [err |-> "ErrSecretNotFound", dcred |-> NilDecrypted,
             decrypted |-> FALSE, item |-> NoCredential, kmsCalls |-> 0]
       ELSE [item |-> items[1]] @@ decryptCredential(items[1], kms)

\* GetHighestVersion(name).
GetHighestVersion(tbl, name, store) ==
    LET items == Query(tbl, name, EmptyString, 1)
    IN IF store # "ok" THEN [ver |-> EmptyString, err |-> store]
       ELSE IF Len(items) = 0
       THEN [ver |-> EmptyString, err |-> "ErrSecretNotFound"]
       ELSE [ver |-> items[1].Version, err |-> "none"]

\* ResolveVersion that returns the highest version as it is.
ResolveVersion_noincrement(tbl, name, version, store) ==
    IF version # 0 THEN [ver |-> Itoa(version), err |-> "none"]
    ELSE LET h == GetHighestVersion(tbl, name, store)
             parsed == Atoi(h.ver)
         IN IF h.err = "ErrSecretNotFound" THEN [ver |-> Itoa(1), err |-> "none"]
            ELSE IF h.err # "none" THEN [ver |-> EmptyString, err |-> h.err]
            ELSE IF parsed.err # "none"
            THEN [ver |-> EmptyString, err |-> parsed.err]
            ELSE [ver |-> Itoa(parsed.val), err |-> "none"]

\* ResolveVersion(name, version).
ResolveVersion(tbl, name, version, store) ==
    IF version # 0 THEN [ver |-> Itoa(version), err |-> "none"]
    ELSE LET h == GetHighestVersion(tbl, name, store)
             parsed == Atoi(h.ver)
         IN IF h.err = "ErrSecretNotFound" THEN [ver |-> Itoa(1), err |-> "none"]
            ELSE IF h.err # "none" THEN [ver |-> EmptyString, err |-> h.err]
            ELSE IF parsed.err # "none"
            THEN [ver |-> EmptyString, err |-> parsed.err]
            ELSE [ver |-> Itoa(parsed.val + 1), err |-> "none"]

\* PutSecret that resolves the next version when none is given.
PutSecret_autoincrement(tbl, name, secret, version, k, now, kms, store) ==
    LET ver == IF version = EmptyString
               THEN ResolveVersion(tbl, name, 0, "ok").ver ELSE version
        dk == GenerateDataKey(k, kms)
        dataKey == dk.Plaintext[1]
        hmacKey == dk.Plaintext[2]
        wrappedKey == dk.CiphertextBlob
        ctext == Encrypt(dataKey, secret)
        b64hmac == ComputeHmac256(ctext, hmacKey)
        b64ctext == B64Encode(ctext)
        cred == [Name |-> name, Version |-> ver, Key |-> B64Encode(wrappedKey),
                 Contents |-> b64ctext, Hmac |-> b64hmac, CreatedAt |-> now]
        put == PutItem(tbl, cred, store)
    IN IF dk.err # "none"
       THEN [err |-> dk.err, table |-> tbl, cred |-> NoCredential, kmsCalls |-> 1]
       ELSE [err |-> put.err, table |-> put.table, cred |-> cred, kmsCalls |-> 1]

\* PutSecret that asks for no new data key and uses the first one again.
PutSecret_reusedkey(tbl, name, secret, version, k, now, kms, store) ==
    LET ver == IF version = EmptyString THEN Itoa(1) ELSE version
        dk == GenerateDataKey(1, kms)
        dataKey == dk.Plaintext[1]
        hmacKey == dk.Plaintext[2]
        wrappedKey == dk.CiphertextBlob
        ctext == Encrypt(dataKey, secret)
        b64hmac == ComputeHmac256(ctext, hmacKey)
        b64ctext == B64Encode(ctext)
        cred == [Name |-> name, Version |-> ver, Key |-> B64Encode(wrappedKey),
                 Contents |-> b64ctext, Hmac |-> b64hmac, CreatedAt |-> now]
        put == PutItem(tbl, cred, store)
    IN IF dk.err # "none"
       THEN [err |-> dk.err, table |-> tbl, cred |-> NoCredential, kmsCalls |-> 0]
       ELSE [err |-> put.err, table |-> put.table, cred |-> cred, kmsCalls |-> 0]

\* PutSecret(name, secret, version): k is the data key the service issues
\* when it answers, now the clock.
PutSecret(tbl, name, secret, version, k, now, kms, store) ==
    LET ver == IF version = EmptyString THEN Itoa(1) ELSE version
        dk == GenerateDataKey(k, kms)
        dataKey == dk.Plaintext[1]
        hmacKey == dk.Plaintext[2]
        wrappedKey == dk.CiphertextBlob
        ctext == Encrypt(dataKey, secret)
        b64hmac == ComputeHmac256(ctext, hmacKey)
        b64ctext == B64Encode(ctext)
        cred == [Name |-> name, Version |-> ver, Key |-> B64Encode(wrappedKey),
                 Contents |-> b64ctext, Hmac |-> b64hmac, CreatedAt |-> now]
        put == PutItem(tbl, cred, store)
    IN IF dk.err # "none"
       THEN [err |-> dk.err, table |-> tbl, cred |-> NoCredential, kmsCalls |-> 1]
       ELSE [err |-> put.err, table |-> put.table, cred |-> cred, kmsCalls |-> 1]

\* filterLatest: every list it can return.
filterLatest(creds) ==
    UNION {
        LET names == [n \in {c.Name : c \in Range(creds)} |->
                        LET last == CHOOSE i \in 1 .. Len(sorted) :
                                /\ sorted[i].Name = n
                                /\ \A j \in i + 1 .. Len(sorted) : sorted[j].Name # n
                        IN sorted[last]]
            vals == {names[n] : n \in DOMAIN names}
        IN UNION {SortByVersion(results) : results \in Perms(vals)}
        : sorted \in SortByVersion(creds)}

\* ListSecrets that unwraps the key of every credential it returns.
ListSecrets_unwrapping(tbl, allVersions, store) ==
    IF store # "ok" THEN {[err |-> store, creds |-> <<>>, kmsCalls |-> 0]}
    ELSE UNION {
        LET creds == [i \in 1 .. Len(items) |->
                        Project(items[i], {"name", "version", "created_at"})]
            kept == IF allVersions THEN {creds} ELSE filterLatest(creds)
        IN {[err |-> "none", creds |-> out, kmsCalls |-> Len(out)] :
                out \in UNION {SortByName(k) : k \in kept}}
        : items \in Scan(tbl)}

\* ListSecrets(allVersions): every result it can return.
ListSecrets(tbl, allVersions, store) ==
    IF store # "ok" THEN {[err |-> store, creds |-> <<>>, kmsCalls |-> 0]}
    ELSE UNION {
        LET creds == [i \in 1 .. Len(items) |->
                        Project(items[i], {"name", "version", "created_at"})]
            kept == IF allVersions THEN {creds} ELSE filterLatest(creds)
        IN {[err |-> "none", creds |-> out, kmsCalls |-> 0] :
                out \in UNION {SortByName(k) : k \in kept}}
        : items \in Scan(tbl)}

\* The loop of GetAllSecrets over the sorted list: kms[i] is the outcome of
\* the key unwrap for the i-th credential. errs lists the error of each
\* decryptCredential call in turn.
RECURSIVE DecryptLoop(_, _, _, _, _)
DecryptLoop(creds, kms, i, results, errs) ==
    IF i > Len(creds) THEN [err |-> "none", results |-> results, errs |-> errs]
    ELSE LET d == decryptCredential(creds[i], kms[i])
         IN IF d.err = "AccessDeniedException"
            THEN DecryptLoop(creds, kms, i + 1, results, Append(errs, d.err))
            ELSE DecryptLoop(creds, kms, i + 1, Append(results, d.dcred),
                             Append(errs, d.err))

\* The outcomes of the key unwraps of one listing of n credentials: at most
\* one of them fails.
KmsPlans(n) ==
    {[i \in 1 .. n |-> IF i = pos THEN out ELSE "ok"] :
        pos \in 0 .. n, out \in KmsOutcomes \ {"ok"}}

\* GetAllSecrets(allVersions): every result it can return, each with the
\* outcomes kms of the key unwraps that lead to it and the sorted list creds
\* the loop went through.
GetAllSecrets(tbl, allVersions, store) ==
    IF store # "ok"
    THEN {[err |-> store, results |-> <<>>, errs |-> <<>>, creds |-> <<>>,
           kms |-> <<>>]}
    ELSE LET lists == UNION {
                 LET kept == IF allVersions THEN {items} ELSE filterLatest(items)
                 IN UNION {SortByName(k) : k \in kept}
                 : items \in Scan(tbl)}
         IN UNION {{[creds |-> creds, kms |-> kms]
                        @@ DecryptLoop(creds, kms, 1, <<>>, <<>>) :
                    kms \in KmsPlans(Len(creds))} : creds \in lists}

\* ------------------------------------------------------------------ state
VARIABLES
    table,    \* the items of the DynamoDB table
    cli,      \* per caller: the put command of main between its two calls
    del,      \* the DeleteSecret call in progress or last finished
    last,     \* the last call that returned and its result, for the current table
    written,  \* history: per stored item, what PutSecret wrote and its secret
    tampers,  \* history: how often a stored item was altered behind the program
    setup     \* the Setup call: its position, its channels, the table's status

vars == <<table, cli, del, last, written, tampers, setup>>

NoCall == [op |-> "none"]
NoRival == [set |-> FALSE, err |-> "none", secret |-> 0]
Idle ==
    [pc |-> "idle", name |-> "", secret |-> 0, explicit |-> 0,
     version |-> EmptyString, rival |-> NoRival]
NoDelete ==
    [pc |-> "idle", name |-> "", items |-> <<>>, seen |-> {}, err |-> "unset"]

\* Setup is not called. tick: the ticker's channel holds a tick; fired: the
\* timeout channel holds the timer's value; clock: seconds since
\* waitForTable began; status: the table's status at the store. History:
\* creates and polls count the CreateTable and DescribeTable calls, late
\* creates counts the CreateTable calls, polled tells whether DescribeTable
\* was called, late whether a DescribeTable call returned after the timer
\* fired, sawActive whether a poll observed the table active.
NoSetup ==
    [pc |-> "idle", clock |-> 0, tick |-> FALSE, fired |-> FALSE,
     status |-> "NONE", err |-> "unset", creates |-> 0, polled |-> FALSE,
     late |-> FALSE, sawActive |-> FALSE]

Init ==
    /\ table = {}
    /\ cli = [c \in Clients |-> Idle]
    /\ del = NoDelete
    /\ last = NoCall
    /\ written = {}
    /\ tampers = 0
    /\ setup = NoSetup

\* The data keys wrapped in the items of the table.
KeysOf(tbl) == {B64Decode(r.Key).bytes[2] : r \in tbl}

\* The key-management service issues a key it never issued before. The keys
\* of items that are gone, and of puts that failed, are wrapped nowhere and
\* leave no trace, so the new key is named by the first number that is the
\* key of no stored item.
FreshKey(tbl) == CHOOSE k \in 1 .. Cardinality(tbl) + 1 :
                    /\ k \notin KeysOf(tbl)
                    /\ \A j \in 1 .. k - 1 : j \in KeysOf(tbl)

\* time.Now().Unix(): the clock moves on between two calls of the
\* key-management service.
Now(k) == 1000 + k

ItemsOf(tbl, name) == {r \in tbl : r.Name = name}

\* The put command of main, first half: ResolveVersion(name, version). When
\* it fails the command ends.
CmdPutResolve(c, argset) ==
    /\ cli[c].pc = "idle"
    /\ \E args \in argset, store \in StoreOutcomes :
        /\ (args.explicit # 0 => store = "ok")
        /\ LET name == args.name
               r == ResolveVersion(table, name, args.explicit, store)
           IN /\ Atoi(r.ver).val <= MaxVersion
              /\ IF r.err = "none"
                 THEN /\ cli' = [cli EXCEPT ![c] =
                                [pc |-> "resolved", name |-> name,
                                 secret |-> args.secret,
                                 explicit |-> args.explicit, version |-> r.ver,
                                 rival |-> NoRival]]
                      /\ last' = NoCall
                 ELSE /\ cli' = cli
                      /\ last' = [op |-> "Resolve", name |-> name, err |-> r.err]
    /\ del' = IF del.pc = "running" THEN del ELSE NoDelete
    /\ UNCHANGED <<table, written, tampers, setup>>

\* The put command of main, second half: PutSecret with the resolved
\* version. A caller still between its two calls that resolved the same
\* next version of the same name keeps the outcome of this put as rival.
CmdPutWrite(c) ==
    /\ cli[c].pc = "resolved"
    /\ \E kms \in KmsOutcomes, store \in StoreOutcomes :
        /\ (kms # "ok" => store = "ok")
        /\ LET me == cli[c]
               k == FreshKey(table)
               r == PutSecret(table, me.name, me.secret, me.version, k,
                              Now(k), kms, store)
           IN /\ Cardinality(r.table) <= MaxItems
              /\ table' = r.table
              /\ written' = IF r.err = "none"
                            THEN written \cup {[cred |-> r.cred, secret |-> me.secret]}
                            ELSE written
              /\ cli' = [d \in Clients |->
                    IF d = c THEN Idle
                    ELSE IF cli[d].pc = "resolved" /\ cli[d].name = me.name
                    THEN [cli[d] EXCEPT
                            !.rival = IF /\ cli[d].version = me.version
                                         /\ cli[d].explicit = 0 /\ me.explicit = 0
                                         /\ ~cli[d].rival.set
                                      THEN [set |-> TRUE, err |-> r.err,
                                            secret |-> me.secret]
                                      ELSE @]
                    ELSE cli[d]]
              /\ last' = [op |-> "Put", name |-> me.name, secret |-> me.secret,
                          explicit |-> me.explicit, version |-> me.version,
                          rival |-> me.rival, kms |-> kms, store |-> store,
                          err |-> r.err, kmsCalls |-> r.kmsCalls]
    /\ UNCHANGED <<del, tampers, setup>>

\* The query of DeleteSecret with no condition on the name.
DeleteQuery_allnames(tbl, name) == CHOOSE p \in Perms(tbl) : TRUE

\* The query of DeleteSecret with the Limit of the query of GetSecret.
DeleteQuery_limit1(tbl, name) == Query(tbl, name, EmptyString, 1)

\* The query of DeleteSecret: every item of the name.
DeleteQuery(tbl, name) == Query(tbl, name, EmptyString, 0)

\* DeleteSecret(name), up to the first DeleteItem: the query of the name's
\* items. With no item the loop is empty and the call returns nil.
DeleteBegin ==
    /\ del.pc # "running"
    /\ \E name \in Names, store \in StoreOutcomes :
        LET items == DeleteQuery(table, name)
        IN del' = IF store # "ok"
                  THEN [NoDelete EXCEPT !.pc = "done", !.name = name, !.err = store]
                  ELSE [pc |-> IF Len(items) = 0 THEN "done" ELSE "running",
                        name |-> name, items |-> items,
                        seen |-> {r.Version : r \in ItemsOf(table, name)},
                        err |-> IF Len(items) = 0 THEN "none" ELSE "unset"]
    /\ last' = NoCall
    /\ UNCHANGED <<table, cli, written, tampers, setup>>

\* DeleteSecret, one turn of the loop: DeleteItem of the next queried item.
DeleteNext ==
    /\ del.pc = "running"
    /\ \E store \in StoreOutcomes :
        LET cred == Head(del.items)
            r == DeleteItem(table, cred.Name, cred.Version, store)
            rest == Tail(del.items)
        IN /\ table' = r.table
           /\ del' = IF r.err # "none"
                     THEN [del EXCEPT !.pc = "done", !.err = r.err]
                     ELSE [del EXCEPT !.items = rest,
                                      !.pc = IF Len(rest) = 0 THEN "done" ELSE "running",
                                      !.err = IF Len(rest) = 0 THEN "none" ELSE "unset"]
           /\ written' = {w \in written :
                            HasKey(r.table, w.cred.Name, w.cred.Version)}
           /\ last' = NoCall
    /\ UNCHANGED <<cli, tampers, setup>>

\* The versions a read asks for: none, or one that is or was stored.
ReadVersions ==
    {EmptyString, Itoa(1)} \cup {r.Version : r \in table} \cup del.seen

\* GetSecret(name, version).
Get ==
    /\ \E name \in Names, version \in ReadVersions,
          store \in StoreOutcomes, kms \in KmsOutcomes :
        /\ (store # "ok" => kms = "ok")
        /\ last' = [op |-> "Get", name |-> name, version |-> version,
                    store |-> store, kms |-> kms]
                   @@ GetSecret(table, name, version, store, kms)
    /\ UNCHANGED <<table, cli, del, written, tampers, setup>>

\* ListSecrets(allVersions).
List ==
    /\ \E allVersions \in BOOLEAN, store \in StoreOutcomes :
        \E r \in ListSecrets(table, allVersions, store) :
            last' = [op |-> "List", allVersions |-> allVersions,
                     store |-> store] @@ r
    /\ del' = NoDelete
    /\ UNCHANGED <<table, cli, written, tampers, setup>>

\* GetAllSecrets(allVersions).
GetAll ==
    /\ \E allVersions \in BOOLEAN, store \in StoreOutcomes :
        \E r \in GetAllSecrets(table, allVersions, store) :
            last' = [op |-> "GetAll", allVersions |-> allVersions,
                     store |-> store] @@ r
    /\ del' = NoDelete
    /\ UNCHANGED <<table, cli, written, tampers, setup>>

\* No command is between two of its calls.
Quiet == del.pc # "running" /\ \A c \in Clients : cli[c].pc = "idle"

\* main returns: the result of its command is printed and gone.
Exit ==
    /\ Quiet
    /\ last # NoCall \/ del # NoDelete
    /\ last' = NoCall
    /\ del' = NoDelete
    /\ UNCHANGED <<table, cli, written, tampers, setup>>

\* No command runs.
Rest == Quiet /\ last = NoCall /\ del = NoDelete

\* No command runs or has printed its result; a delete may just have
\* returned.
AfterDelete == Quiet /\ last = NoCall

\* One caller: a command begins when the one before it has returned.
Next ==
    \/ Rest /\ CmdPutResolve(1, PutArgs)
    \/ CmdPutWrite(1)
    \/ Rest /\ DeleteBegin
    \/ DeleteNext
    \/ AfterDelete /\ Get
    \/ Rest /\ List
    \/ Rest /\ GetAll
    \/ Exit

Spec == Init /\ [][Next]_vars

\* The texts a stored ciphertext can be changed to: the text of other
\* bytes, the text of the same bytes broken into lines, a text that is not
\* base64.
Texts == {[kind |-> k, bytes |-> b] : k \in {"canon", "lines"}, b \in Bytes}
             \cup {[kind |-> "bad", bytes |-> 0]}
TamperedTexts(cred) ==
    {t \in Texts : t.kind = "lines" => t.bytes = cred.Contents.bytes}
        \ {cred.Contents}

\* The tags a stored mac can be changed to by someone who has no data key:
\* the tag of another item, or text that is no tag of the table.
TamperedTags(tbl, cred) == ({r.Hmac : r \in tbl} \cup {<<"junk">>}) \ {cred.Hmac}

\* Someone with write access to the table alters the ciphertext or the mac
\* of a stored item.
Tamper ==
    /\ tampers < MaxTamper
    /\ \E r \in table :
        \/ \E t \in TamperedTexts(r) :
            table' = (table \ {r}) \cup {[r EXCEPT !.Contents = t]}
        \/ \E h \in TamperedTags(table, r) :
            table' = (table \ {r}) \cup {[r EXCEPT !.Hmac = h]}
    /\ tampers' = tampers + 1
    /\ last' = NoCall
    /\ UNCHANGED <<cli, del, written, setup>>

\* One caller, and the table is writable behind the program.
\* The puts of this specification: one name, every secret, a version given
\* or not.
TamperArgs ==
    {[name |-> "a", secret |-> s, explicit |-> v] : s \in Secrets, v \in {0, 9}}

NextTamper ==
    \/ Rest /\ CmdPutResolve(1, TamperArgs)
    \/ CmdPutWrite(1)
    \/ Rest /\ Get
    \/ Rest /\ Tamper
    \/ Exit

SpecTamper == Init /\ [][NextTamper]_vars

\* The arguments of the put commands of callers that race: one name, the
\* secret tells the callers apart.
RaceArgs(c) ==
    {[name |-> "a", secret |-> c, explicit |-> v] : v \in {0, 9}}

\* Several callers at once: the calls of their commands interleave.
NextRace ==
    \/ \E c \in Clients : CmdPutResolve(c, RaceArgs(c))
    \/ \E c \in Clients : CmdPutWrite(c)
    \/ Exit

SpecRace == Init /\ [][NextRace]_vars

\* ---------------------------------------------------------------- library
\* The versions a caller of the package passes to PutSecret: none, or the
\* text of a number.
LibVersions == {EmptyString, Itoa(1), Itoa(2)}

LibSecrets == {1}

\* A caller of the package calls PutSecret(name, secret, version) itself,
\* with no ResolveVersion before it, at any moment: between the calls
\* DeleteSecret makes to the store, too.
PutDirect ==
    /\ \E name \in Names, secret \in LibSecrets, version \in LibVersions,
          kms \in KmsOutcomes, store \in StoreOutcomes :
        /\ (kms # "ok" => store = "ok")
        /\ LET k == FreshKey(table)
               r == PutSecret(table, name, secret, version, k, Now(k), kms, store)
           IN /\ Cardinality(r.table) <= MaxItems
              /\ table' = r.table
              /\ written' = IF r.err = "none"
                            THEN written \cup {[cred |-> r.cred, secret |-> secret]}
                            ELSE written
              /\ last' = [op |-> "PutSecret", name |-> name, secret |-> secret,
                          version |-> version, kms |-> kms, store |-> store,
                          err |-> r.err, kmsCalls |-> r.kmsCalls]
    /\ UNCHANGED <<cli, del, tampers, setup>>

\* Callers of the package: puts and a delete whose calls interleave.
NextLib ==
    \/ PutDirect
    \/ DeleteBegin
    \/ DeleteNext

SpecLib == Init /\ [][NextLib]_vars

\* ------------------------------------------------------------------ Setup
\* dynamoSvc.CreateTable
CreateTable(store) ==
    IF store # "ok" THEN [err |-> store, status |-> "NONE"]
    ELSE [err |-> "none", status |-> "CREATING"]

\* The timer of waitForTable that never puts its value in the channel.
TimerFired_never(clock) == FALSE

\* The goroutine of waitForTable: after tableCreateTimeout it puts a value in
\* the timeout channel.
TimerFired(clock) == clock >= tableCreateTimeout

\* The ticker case that takes any answer of DescribeTable for an active
\* table.
waitForTablePoll_anystatus(status, store) ==
    IF store # "ok" THEN [return |-> TRUE, err |-> store]
    ELSE [return |-> TRUE, err |-> "none"]

\* The ticker case of waitForTable: DescribeTable, then return its error,
\* return nil on an active table, or go round the loop.
waitForTablePoll(status, store) ==
    IF store # "ok" THEN [return |-> TRUE, err |-> store]
    ELSE IF status = "ACTIVE" THEN [return |-> TRUE, err |-> "none"]
    ELSE [return |-> FALSE, err |-> "none"]

Others == <<table, cli, del, last, written, tampers>>

\* Setup up to the select of waitForTable: CreateTable, whose error is
\* returned at once.
SetupCall ==
    /\ setup.pc = "idle"
    /\ \E store \in StoreOutcomes :
        LET r == CreateTable(store)
        IN setup' = [setup EXCEPT
                        !.creates = @ + 1,
                        !.status = r.status,
                        !.err = IF r.err # "none" THEN r.err ELSE "unset",
                        !.pc = IF r.err # "none" THEN "done" ELSE "select"]
    /\ UNCHANGED Others

\* A second passes while waitForTable runs: the ticker offers a tick (its
\* channel holds one tick at most) and the timer may fire. The clock is
\* followed up to MaxLate seconds past the timeout; time goes on after that.
Second ==
    /\ setup.pc \in {"select", "describe"}
    /\ LET t == IF setup.clock < tableCreateTimeout + MaxLate
                THEN setup.clock + 1 ELSE setup.clock
       IN setup' = [setup EXCEPT !.clock = t, !.tick = TRUE,
                                 !.fired = @ \/ TimerFired(t)]
    /\ UNCHANGED Others

\* The store finishes creating the table.
TableActivates ==
    /\ setup.pc \in {"select", "describe"}
    /\ setup.status = "CREATING"
    /\ setup' = [setup EXCEPT !.status = "ACTIVE"]
    /\ UNCHANGED Others

\* select takes the ticker case: DescribeTable is called.
SelectTicker ==
    /\ setup.pc = "select"
    /\ setup.tick
    /\ setup' = [setup EXCEPT !.tick = FALSE, !.pc = "describe", !.polled = TRUE]
    /\ UNCHANGED Others

\* DescribeTable returns and the ticker case ends.
DescribeReturns ==
    /\ setup.pc = "describe"
    /\ \E store \in StoreOutcomes :
        LET r == waitForTablePoll(setup.status, store)
        IN setup' = [setup EXCEPT
                        !.late = @ \/ setup.fired,
                        !.sawActive = store = "ok" /\ setup.status = "ACTIVE",
                        !.pc = IF r.return THEN "done" ELSE "select",
                        !.err = IF r.return THEN r.err ELSE "unset"]
    /\ UNCHANGED Others

\* select takes the timeout case: ErrTimeout.
SelectTimeout ==
    /\ setup.pc = "select"
    /\ setup.fired
    /\ setup' = [setup EXCEPT !.pc = "done", !.err = "ErrTimeout"]
    /\ UNCHANGED Others

NextSetup ==
    \/ SetupCall
    \/ Second
    \/ TableActivates
    \/ SelectTicker
    \/ DescribeReturns
    \/ SelectTimeout

SpecSetup == Init /\ [][NextSetup]_vars

\* Time passes, every call of the store returns, and a select that finds the
\* timeout channel ready again and again takes it in the end (select chooses
\* among its ready cases at random).
SpecSetupFair ==
    /\ SpecSetup
    /\ WF_vars(Second)
    /\ WF_vars(SelectTicker)
    /\ WF_vars(DescribeReturns)
    /\ SF_vars(SelectTimeout)

\* ----------------------------------------------------------------- claims
\* What PutSecret wrote for the stored item r, and the secret it encrypted.
WrittenFor(r) ==
    CHOOSE w \in written : w.cred.Name = r.Name /\ w.cred.Version = r.Version

ServicesOk(call) == call.store = "ok" /\ call.kms = "ok"

\* C1: round trip. A name that had no item and was put once has one item;
\* GetSecret(name, "") then returns the secret that was put and no error
\* (the store and the key-management service answering).
C1_RoundTrip ==
    (/\ last.op = "Get" /\ last.version = EmptyString /\ ServicesOk(last)
     /\ Cardinality(ItemsOf(table, last.name)) = 1)
    => /\ last.err = "none"
       /\ ~last.dcred.nil
       /\ \A r \in ItemsOf(table, last.name) :
            last.dcred.Secret = WrittenFor(r).secret

C1_Witness ==
    /\ last.op = "Get" /\ last.version = EmptyString /\ ServicesOk(last)
    /\ Cardinality(ItemsOf(table, last.name)) = 1
    /\ last.err = "none" /\ last.dcred.Secret = 2

\* The stored ciphertext or mac of item r is not what PutSecret wrote.
Tampered(r) ==
    \/ r.Contents # WrittenFor(r).cred.Contents
    \/ r.Hmac # WrittenFor(r).cred.Hmac

\* The stored ciphertext of r does not decode, or decodes to other bytes than
\* PutSecret wrote, or the stored mac is another.
Altered(r) ==
    \/ B64Decode(r.Contents).err # "none"
    \/ B64Decode(r.Contents).bytes # B64Decode(WrittenFor(r).cred.Contents).bytes
    \/ r.Hmac # WrittenFor(r).cred.Hmac

GetSelected == last.op = "Get" /\ last.item # NoCredential

\* C2 as stated: a GetSecret that selects an item whose stored ciphertext or
\* mac differs from what PutSecret wrote returns ErrHmacValidationFailed and
\* no plaintext, and does not reach Decrypt (the services answering).
C2_Original ==
    (GetSelected /\ ServicesOk(last) /\ Tampered(last.item))
    => /\ last.err = "ErrHmacValidationFailed"
       /\ last.dcred.nil
       /\ ~last.decrypted

\* C2, amended: a GetSecret that selects an item whose stored mac differs
\* from what PutSecret wrote, or whose stored ciphertext does not decode or
\* decodes to other bytes, returns an error and no plaintext and does not
\* reach Decrypt; with the key unwrapped, the error is the base64 error when
\* the ciphertext does not decode and ErrHmacValidationFailed otherwise. A
\* GetSecret that returns a plaintext returns the secret that was put.
C2_TamperDetection ==
    (GetSelected /\ last.store = "ok")
    => /\ Altered(last.item)
            => /\ last.err # "none" /\ last.dcred.nil /\ ~last.decrypted
               /\ last.kms = "ok"
                    => last.err = IF B64Decode(last.item.Contents).err # "none"
                                  THEN "CorruptInputError"
                                  ELSE "ErrHmacValidationFailed"
       /\ last.err = "none"
            => /\ last.decrypted
               /\ last.dcred.Secret = WrittenFor(last.item).secret

C2_Witness ==
    /\ GetSelected /\ ServicesOk(last) /\ Tampered(last.item)
    /\ last.err = "ErrHmacValidationFailed"
    /\ ~last.decrypted

\* The PutSecret call of caller c returns in this step.
PutReturns(c) == cli[c].pc = "resolved" /\ cli'[c].pc = "idle"

\* C3: conditional uniqueness. A PutSecret whose (name, version) is stored
\* fails, with the failure of the condition when the services answer, and
\* leaves the table, so the stored item, as it was.
C3_ConditionalUniqueness ==
    [][\A c \in Clients :
        (PutReturns(c) /\ HasKey(table, cli[c].name, cli[c].version))
        => /\ table' = table
           /\ last'.op = "Put" /\ last'.err # "none"
           /\ ServicesOk(last') => last'.err = "ConditionalCheckFailedException"]_vars

C3_Witness ==
    /\ last.op = "Put" /\ last.explicit # 0
    /\ last.err = "ConditionalCheckFailedException"
    /\ \E r \in table : /\ r.Name = last.name /\ r.Version = last.version
                        /\ WrittenFor(r).secret # last.secret

VersionsOf(tbl, name) == {r.Version : r \in ItemsOf(tbl, name)}

\* The version of the name that is highest as an integer.
NumericLatest(tbl, name) ==
    CHOOSE v \in VersionsOf(tbl, name) :
        \A u \in VersionsOf(tbl, name) : Atoi(u).val <= Atoi(v).val

\* C4: numeric latest in GetSecret. GetSecret(name, "") selects the item of
\* the name whose version is highest as an integer (the services answering).
C4_NumericLatestGet ==
    (/\ last.op = "Get" /\ last.version = EmptyString /\ ServicesOk(last)
     /\ ItemsOf(table, last.name) # {})
    => last.item.Version = NumericLatest(table, last.name)

\* The list holds one credential for every name of the table, and it is the
\* one whose version is highest as an integer.
OnePerName(list) ==
    \A n \in {r.Name : r \in table} :
        /\ Cardinality({i \in 1 .. Len(list) : list[i].Name = n}) = 1
        /\ \A i \in 1 .. Len(list) :
            list[i].Name = n => list[i].Version = NumericLatest(table, n)

CredentialsOf(results) == [i \in 1 .. Len(results) |-> results[i].Credential]

LatestListing(op) == last.op = op /\ ~last.allVersions /\ last.store = "ok"

\* C5 as stated: ListSecrets(false) and GetAllSecrets(false) return one
\* record for every name of the table, the one of the numerically highest
\* version. It is stated here for the listings in which no decryption fails
\* but by a denied key unwrap.
C5_Original ==
    /\ LatestListing("List") => OnePerName(last.creds)
    /\ (/\ LatestListing("GetAll")
        /\ \A i \in 1 .. Len(last.errs) :
              last.errs[i] \in {"none", "AccessDeniedException"})
       => OnePerName(CredentialsOf(last.results))

\* C5, amended: ListSecrets(false) returns one record for every name of the
\* table, the one of the numerically highest version, whatever the order of
\* the scan. GetAllSecrets(false) decrypts such a list, and returns one
\* record, that one, for every name whose credential decrypts, and none for
\* a name whose credential does not.
C5_NumericLatestListing ==
    /\ LatestListing("List") => OnePerName(last.creds)
    /\ LatestListing("GetAll")
       => /\ OnePerName(last.creds)
          /\ Len(last.errs) = Len(last.creds)
          /\ \A i \in 1 .. Len(last.creds) :
                LET same == {j \in 1 .. Len(last.results) :
                               last.results[j].Credential.Name = last.creds[i].Name}
                IN IF last.errs[i] = "none"
                   THEN /\ Cardinality(same) = 1
                        /\ \A j \in same : last.results[j].Credential = last.creds[i]
                   ELSE same = {}

C5_Witness ==
    /\ LatestListing("GetAll")
    /\ VersionsOf(table, "a") = {Itoa(9), Itoa(10)}
    /\ ItemsOf(table, "b") # {}
    /\ last.errs = <<"none", "AccessDeniedException">>
    /\ Len(last.results) = 1
    /\ last.results[1].Credential.Version = Itoa(10)

FirstVersions(k) == {Itoa(i) : i \in 1 .. k}

\* C6: auto-increment. With one caller, a put command with no version on a
\* name whose stored versions are "1" to k, for k from 0 to 2, succeeds and
\* stores version k + 1 (the services answering): from a name with no
\* version, three such commands store "1", "2", "3" in that order.
C6_AutoIncrement ==
    [][\A c \in Clients : \A k \in 0 .. 2 :
        (/\ PutReturns(c) /\ cli[c].explicit = 0
         /\ VersionsOf(table, cli[c].name) = FirstVersions(k)
         /\ ServicesOk(last'))
        => /\ last'.err = "none"
           /\ last'.version = Itoa(k + 1)
           /\ VersionsOf(table', cli[c].name) = FirstVersions(k + 1)]_vars

C6_Witness ==
    /\ last.op = "Put" /\ last.explicit = 0 /\ last.err = "none"
    /\ last.version = Itoa(3)
    /\ VersionsOf(table, last.name) = FirstVersions(3)

\* DeleteSecret returned nil. No put came between its calls or after it: the
\* caller begins a command when the one before it has returned, and del is
\* kept only until the next command that is not a read begins.
DeletedClean == del.pc = "done" /\ del.err = "none"

\* C7: deletion completeness. After DeleteSecret(name) returned nil, with no
\* put of the name in between, no item of the name is stored, and
\* GetSecret(name, v) returns ErrSecretNotFound for no version and for every
\* version v that was stored before the delete (the store answering).
C7_DeletionCompleteness ==
    DeletedClean
    => /\ ItemsOf(table, del.name) = {}
       /\ (/\ last.op = "Get" /\ last.name = del.name /\ last.store = "ok"
           /\ last.version \in del.seen \cup {EmptyString})
          => last.err = "ErrSecretNotFound"

C7_Witness ==
    /\ DeletedClean
    /\ Cardinality(del.seen) >= 2
    /\ last.op = "Get" /\ last.name = del.name /\ last.store = "ok"
    /\ last.version \in del.seen
    /\ last.err = "ErrSecretNotFound"

\* C8: racing writers. Two callers resolved the same next version of a name
\* with no version given; the first has put (rival), the second puts now.
\* The services answering, one of the two puts succeeds and the other fails
\* the condition, and the table holds one item of that (name, version), with
\* the secret of the one that succeeded.
C8_RacingWriters ==
    (/\ last.op = "Put" /\ last.rival.set /\ ServicesOk(last)
     /\ last.rival.err \in {"none", "ConditionalCheckFailedException"})
    => /\ (last.err = "none") # (last.rival.err = "none")
       /\ {last.err, last.rival.err} = {"none", "ConditionalCheckFailedException"}
       /\ \E r \in table :
            /\ r.Name = last.name /\ r.Version = last.version
            /\ WrittenFor(r).secret = IF last.err = "none" THEN last.secret
                                      ELSE last.rival.secret

\* C9: partial failure of GetAllSecrets. A denied key unwrap is skipped; any
\* other failure of a decryption ends the listing at that credential with
\* that error, and a listing that returns no error has no entry for a
\* credential that failed to decrypt.
C9_PartialFailure ==
    (last.op = "GetAll" /\ last.store = "ok")
    => LET fatal == {i \in 1 .. Len(last.errs) :
                        last.errs[i] \notin {"none", "AccessDeniedException"}}
       IN /\ fatal # {} => /\ last.err # "none"
                           /\ \A i \in fatal : i = Len(last.errs) /\ last.err = last.errs[i]
          /\ last.err = "none" => \A j \in 1 .. Len(last.results) : ~last.results[j].nil

SetupDone == setup.pc = "done"

\* C11 as stated: Setup outcome. Setup returns nil only if a poll observed
\* the table active; it returns ErrTimeout if the timer fired before any poll
\* observed the table active; the error of CreateTable is returned with no
\* poll and one CreateTable call.
C11_Original ==
    SetupDone
    => /\ setup.err = "none" => setup.sawActive
       /\ (setup.fired /\ (setup.sawActive => setup.late))
          => setup.err = "ErrTimeout"
       /\ setup.status = "NONE"
          => setup.err = "StoreError" /\ ~setup.polled /\ setup.creates = 1

\* C11, amended: Setup returns nil only if a poll observed the table active,
\* and ErrTimeout only if the timer fired and no poll observed the table
\* active. When the timer fired and no DescribeTable call returned after it,
\* Setup returns ErrTimeout; a poll that returns after the timer fired still
\* decides the outcome. The error of CreateTable is returned with no poll,
\* and CreateTable is called once.
C11_SetupOutcome ==
    SetupDone
    => /\ setup.err = "none" => setup.sawActive /\ setup.status = "ACTIVE"
       /\ setup.err = "ErrTimeout" => setup.fired /\ ~setup.sawActive
       /\ (setup.fired /\ ~setup.late) => setup.err = "ErrTimeout"
       /\ setup.status = "NONE"
          => setup.err = "StoreError" /\ ~setup.polled /\ setup.creates = 1
       /\ setup.creates = 1

C11_Witness ==
    /\ SetupDone /\ setup.err = "none" /\ setup.sawActive
    /\ setup.fired /\ setup.late

\* C18: Setup terminates. Time passing, the calls of the store returning and
\* the select fair to its timeout case, every Setup call returns, whether or
\* not the table becomes active.
C18_SetupTerminates == (setup.pc # "idle") ~> SetupDone

C18_Witness ==
    /\ SetupDone /\ setup.err = "ErrTimeout" /\ setup.polled
    /\ setup.status = "CREATING"
    /\ setup.clock > tableCreateTimeout

\* C12: ResolveVersion(name, 0). With no writer in between, the version a
\* put command resolved with no version given is "1" when the name has no
\* stored version, and else the decimal text of the highest integer-parsed
\* stored version plus one; it is no stored version of the name.
C12_ResolveNext ==
    \A c \in Clients :
        (cli[c].pc = "resolved" /\ cli[c].explicit = 0)
        => LET stored == VersionsOf(table, cli[c].name)
           IN /\ cli[c].version =
                    IF stored = {} THEN Itoa(1)
                    ELSE Itoa(Atoi(NumericLatest(table, cli[c].name)).val + 1)
              /\ cli[c].version \notin stored

VersionsIn(items) == {r.Version : r \in Range(items)}

\* C13: partial failure of DeleteSecret. In every turn of its loop either
\* the next queried item is deleted and nothing else changes, or the
\* DeleteItem fails: then DeleteSecret returns that error, the items deleted
\* before stay deleted, the failed item and the items after it are still
\* stored as they were, and once DeleteSecret has returned no item is
\* deleted.
C13_DeletePartialFailure ==
    [][/\ del.pc = "running"
          => \/ /\ table' = table \ {Head(del.items)}
                /\ del'.items = Tail(del.items)
                /\ del'.err \in {"none", "unset"}
             \/ /\ table' = table
                /\ del'.pc = "done"
                /\ del'.err = "StoreError"
                /\ Range(del.items) \subseteq table'
                /\ VersionsOf(table', del.name) = VersionsIn(del.items)
                /\ (del.seen \ VersionsIn(del.items))
                      \cap VersionsOf(table', del.name) = {}
       /\ del.pc = "done" => table \subseteq table']_vars

C13_Witness ==
    /\ del.pc = "done" /\ del.err = "StoreError"
    /\ Cardinality(del.seen) = 3
    /\ Len(del.items) = 2
    /\ VersionsOf(table, del.name) = VersionsIn(del.items)

\* A read returns in this step: GetSecret, ListSecrets, GetAllSecrets, or
\* the ResolveVersion of a put command (GetHighestVersion).
ReadReturns ==
    \/ last = NoCall /\ last'.op \in {"Get", "List", "GetAll", "Resolve"}
    \/ \E c \in Clients : cli[c].pc = "idle" /\ cli'[c].pc = "resolved"

C15_ListingOrder ==
    (last.op \in {"List", "GetAll"} /\ last.store = "ok")
    => \A i \in 1 .. Len(last.creds) - 1 :
            NameByte[last.creds[i].Name] <= NameByte[last.creds[i + 1].Name]

C15_Witness ==
    /\ last.op = "GetAll" /\ last.store = "ok" /\ last.allVersions
    /\ Len(last.creds) = 3
    /\ last.creds[1].Name = "a" /\ last.creds[2].Name = "a"
    /\ last.creds[3].Name = "b"

\* C16: GetSecret by version. GetSecret(name, v) with v not empty, the store
\* answering, selects the item stored under (name, v) whichever other
\* versions of the name are stored, and returns its secret when the key
\* service answers; with no item under (name, v) it returns
\* ErrSecretNotFound and calls the key-management service no time.
C16_GetExplicitVersion ==
    (last.op = "Get" /\ last.version # EmptyString /\ last.store = "ok")
    => IF HasKey(table, last.name, last.version)
       THEN /\ last.item \in table
            /\ last.item.Name = last.name /\ last.item.Version = last.version
            /\ last.kms = "ok"
               => /\ last.err = "none"
                  /\ last.dcred.Secret = WrittenFor(last.item).secret
       ELSE /\ last.err = "ErrSecretNotFound"
            /\ last.kmsCalls = 0
            /\ last.dcred.nil

C16_Witness ==
    /\ last.op = "Get" /\ last.version = Itoa(10) /\ last.err = "none"
    /\ VersionsOf(table, last.name) = {Itoa(9), Itoa(10)}
    /\ last.dcred.Credential.Version = Itoa(10)

\* The number of the data key whose wrapped form the item holds.
KeyOf(r) == B64Decode(r.Key).bytes[2]

\* C17: one data key per payload. Every PutSecret asks the key-management
\* service for one data key. The service never issuing a key twice, no two
\* stored items hold the same wrapped key; the Key of an item is the wrapped
\* form of its data key, and the item's ciphertext and tag are those of the
\* one secret put with it, under the two halves of that key.
C17_OneKeyPerPayload ==
    /\ last.op = "Put" => last.kmsCalls = 1
    /\ \A r1, r2 \in table : r1 # r2 => r1.Key # r2.Key
    /\ \A r \in table :
        LET k == KeyOf(r)
            ctext == Encrypt(Plaintext(k)[1], WrittenFor(r).secret)
        IN /\ r.Key = B64Encode(CiphertextBlob(k))
           /\ r.Contents = B64Encode(ctext)
           /\ r.Hmac = ComputeHmac256(ctext, Plaintext(k)[2])

C17_Witness ==
    /\ last.op = "Put" /\ last.err = "none" /\ last.kmsCalls = 1
    /\ Cardinality(table) = 3
    /\ Cardinality({r.Key : r \in table}) = 3

\* C19: PutSecret with no version. PutSecret(name, secret, "") writes
\* version "1" whatever versions of the name are stored: the services
\* answering, it stores (name, "1") when that item is absent, and fails the
\* condition, the table unchanged, when it is stored.
C19_EmptyVersionIsOne ==
    [][(/\ last'.op = "PutSecret" /\ last' # last
        /\ last'.version = EmptyString /\ ServicesOk(last'))
       => IF HasKey(table, last'.name, Itoa(1))
          THEN /\ last'.err = "ConditionalCheckFailedException"
               /\ table' = table
          ELSE /\ last'.err = "none"
               /\ \E r \in table' :
                    /\ r.Name = last'.name /\ r.Version = Itoa(1)
                    /\ table' = table \cup {r}]_vars

C19_Witness ==
    /\ last.op = "PutSecret" /\ last.version = EmptyString
    /\ last.err = "ConditionalCheckFailedException"
    /\ VersionsOf(table, last.name) = {Itoa(1), Itoa(2)}

\* C20: frame of DeleteSecret. An item that leaves the table is an item the
\* query of the DeleteSecret in progress returned, of the name given to it;
\* every item of another name stays as it is, whether DeleteSecret ends with
\* nil or with the error of a DeleteItem.
C20_DeleteFrame ==
    [][/\ \A r \in table \ table' :
            /\ del.pc = "running"
            /\ r.Name = del.name
            /\ r \in Range(del.items)
       /\ del.pc = "running"
          => \A r \in table : r.Name # del.name => r \in table']_vars

C20_Witness ==
    /\ del.pc = "done" /\ del.err = "StoreError"
    /\ Cardinality(del.seen) = 2 /\ Len(del.items) = 1
    /\ \E r \in table : r.Name # del.name
    /\ Cardinality(ItemsOf(table, del.name)) = 2

====
